---- MODULE Spec2Model ----
(***************************************************************************)
(* A model of the APFS copier (src/src/main.rs): the path sanitizer, the   *)
(* destination path mapping, the mount controller, the failure registry    *)
(* and the tree copier with its remount recovery.                          *)
(*                                                                         *)
(* Representation.  A string is a sequence of one-character strings, a     *)
(* path is a sequence of components (std::path::Path::iter), the root      *)
(* directory being the component <<"/">>.  The result of a filesystem      *)
(* call is its raw OS error number, OK (0) for success.                    *)
(***************************************************************************)
EXTENDS Integers, Sequences, FiniteSets, TLC

(* ------------------------------ bounds -------------------------------- *)
\* longest string handed to the sanitizer
MaxLen == 3
\* failed filesystem calls, over all process runs
MaxFaults == 2
\* failed mount attempts the call stack of one call of mount() has room
\* for; one more overflows it
MaxMountFails == 3
\* process runs against the same destination
MaxRuns == 2

(* ------------------------- raw OS error numbers ----------------------- *)
OK == 0
EIO == 5
EEXIST == 17
EINVAL == 22
ECONNABORTED == 103
ENOTCONN == 107
\* a representative of every error number the code does not single out
EOTHER == 13
ENOENT == 2

(* --------------------------- path sanitizer --------------------------- *)
\* the nine characters, in the order of the replace calls
Forbidden == <<"\"", "*", "/", ":", "<", ">", "?", "\\", "|">>

ForbiddenSet == {Forbidden[i] : i \in 1..Len(Forbidden)}

\* str::replace with a one-character pattern and replacement
Replace(s, from, to) == [i \in 1..Len(s) |-> IF s[i] = from THEN to ELSE s[i]]

\* a slip the sanitizer could have: backslash turned into a slash
underscore_backslash_to_slash(filename) ==
    Replace(Replace(Replace(Replace(Replace(Replace(Replace(Replace(Replace(
        filename, "\"", "_"), "*", "_"), "/", "_"), ":", "_"), "<", "_"),
        ">", "_"), "?", "_"), "\\", "/"), "|", "_")

underscore_non_windows_chars(filename) ==
    Replace(Replace(Replace(Replace(Replace(Replace(Replace(Replace(Replace(
        filename, "\"", "_"), "*", "_"), "/", "_"), ":", "_"), "<", "_"),
        ">", "_"), "?", "_"), "\\", "_"), "|", "_")

(* ------------------------------- paths -------------------------------- *)
RootDir == <<"/">>

IsPrefix(base, path) ==
    /\ Len(base) <= Len(path)
    /\ SubSeq(path, 1, Len(base)) = base

\* Path::strip_prefix(...).unwrap(); only called with base a prefix of path
strip_prefix(path, base) == SubSeq(path, Len(base) + 1, Len(path))

\* Path::join: an absolute argument replaces the receiver
join(base, rel) ==
    IF rel # <<>> /\ rel[1] = RootDir THEN rel ELSE base \o rel

\* the pieces of a string between its separators, empty ones included
RECURSIVE Split(_)
Split(str) ==
    IF str = <<>> THEN << <<>> >>
    ELSE LET r == Split(Tail(str))
         IN  IF Head(str) = "/" THEN << <<>> >> \o r
             ELSE << <<Head(str)>> \o r[1] >> \o Tail(r)

\* Path::components keeps neither an empty piece nor a '.' inside a path
IsNormal(piece) == piece # <<>> /\ piece # <<".">>

\* PathBuf::push of one string: an absolute one replaces the buffer, a
\* relative one is appended; the string gives one component for each of
\* its pieces, after the root when it is absolute, and a '.' counts at
\* the start of a path only
push(buf, c) ==
    LET kept == SelectSeq(Split(c), IsNormal)
    IN  IF c # <<>> /\ c[1] = "/" THEN <<RootDir>> \o kept
        ELSE IF buf = <<>> /\ Split(c)[1] = <<".">> THEN << <<".">> >> \o kept
        ELSE buf \o kept

\* FromIterator for PathBuf: push every item
RECURSIVE collect(_)
collect(items) ==
    IF items = <<>> THEN <<>>
    ELSE push(collect(SubSeq(items, 1, Len(items) - 1)), items[Len(items)])

\* copy_tree's dest_path: every component of dest.join(relative) is
\* sanitized, the components of dest included
dest_path(dest, source, path) ==
    LET joined == join(dest, strip_prefix(path, source))
    IN  collect([i \in 1..Len(joined) |-> underscore_non_windows_chars(joined[i])])

\* Path::file_name: the last component unless it is the root, '..' or a
\* lone '.'
HasFileName(path) ==
    /\ path # <<>>
    /\ path[Len(path)] \notin {RootDir, <<".", ".">>, <<".">>}

\* PathBuf::set_file_name on a path that has a file name: pop, then push
set_file_name(path, name) == push(SubSeq(path, 1, Len(path) - 1), name)

\* a slip replace_forbidden_characters could have: every component is
\* sanitized
sanitize_every_component(path) ==
    [i \in 1..Len(path) |-> underscore_non_windows_chars(path[i])]

replace_forbidden_characters(path) ==
    set_file_name(path, underscore_non_windows_chars(path[Len(path)]))


(* ------------------------- the two filesystems ------------------------ *)
\* component names of the source trees
nA == <<"A">>
nB == <<"B">>
nX == <<"x">>
nY == <<"y">>
nZ == <<"z">>
nStar == <<"a", "*">>
nUnder == <<"a", "_">>
nColon == <<"C", ":">>
nQuery == <<"d", "?">>
nDUnder == <<"d", "_">>

\* args.source: the source root inside the mount point
SourceRoot == <<RootDir, <<"m">>>>

\* args.dest: a relative and an absolute destination root
DestRoots == {<< <<"o">> >>, <<RootDir, <<"o">>>>}

Under(names) == SourceRoot \o names

\* the source trees: the directories (the root among them) and the files
Trees ==
    { [dirs  |-> {SourceRoot, Under(<<nA>>), Under(<<nB>>)},
       files |-> {Under(<<nA, nX>>), Under(<<nA, nY>>), Under(<<nB, nZ>>)}],
      [dirs  |-> {SourceRoot, Under(<<nColon>>)},
       files |-> {Under(<<nStar>>), Under(<<nUnder>>), Under(<<nColon, nX>>)}],
      [dirs  |-> {SourceRoot, Under(<<nQuery>>)},
       files |-> {Under(<<nDUnder>>), Under(<<nQuery, nZ>>)}] }

DirEntry == [kind |-> "dir", data |-> <<>>]
FileEntry(data) == [kind |-> "file", data |-> data]

\* the bytes of a source file: its name stands for them, distinct for the
\* files of one tree
Content(from) == from[Len(from)]

EmptyFs == [q \in {} |-> DirEntry]

Prefixes(p) == {SubSeq(p, 1, i) : i \in 1..Len(p)}

\* a slip copy_file could have: the destination never counts as present
ExistsNever(fs, p, s) == FALSE

\* Path::exists: false also when the stat fails (s is its error)
Exists(fs, p, s) == s = OK /\ p \in DOMAIN fs

\* what a failed fs::copy leaves at a target it had opened already and
\* not written in full
Partial == <<>>

\* how far a failing fs::copy got: the target not opened, opened and not
\* written in full, or written in full (the error is the one of the call
\* that looks for the end of the file)
CopyLeaves == {"nothing", "partial", "whole"}

\* fs::create_dir_all fails where a component of the path is a file
CreateBlocked(fs, p) == \E q \in Prefixes(p) : q \in DOMAIN fs /\ fs[q].kind = "file"

\* fs::create_dir_all, successful: the path and all missing ancestors
MkDirAll(fs, p) ==
    [q \in DOMAIN fs \cup Prefixes(p) |-> IF q \in DOMAIN fs THEN fs[q] ELSE DirEntry]

\* fs::copy fails where the parent of the target is not a directory
CopyBlocked(fs, to) ==
    /\ Len(to) > 1
    /\ LET parent == SubSeq(to, 1, Len(to) - 1)
       IN  ~(parent \in DOMAIN fs /\ fs[parent].kind = "dir")

\* fs::copy, successful: the target holds the bytes of the source
WriteFile(fs, to, data) ==
    [q \in DOMAIN fs \cup {to} |-> IF q = to THEN FileEntry(data) ELSE fs[q]]

Perms(S) ==
    {f \in [1..Cardinality(S) -> S] :
        \A i, j \in 1..Cardinality(S) : f[i] = f[j] => i = j}

Range(f) == {f[i] : i \in DOMAIN f}

(* ------------------------------- state -------------------------------- *)
VARIABLES
    cfg,        \* Cli: [dest, source]
    src,        \* the source tree: [dirs, files]
    dest,       \* the destination filesystem: path -> entry
    run,        \* number of the process run against this destination
    firstClean, \* the previous run ended with "done!" and no failed call
    pc,         \* where the process is
    stack,      \* copy_tree's frontier
    registry,   \* FAILED_CONNECTION_ABORTS
    cur,        \* the arguments of the pending copy_file call
    ret,        \* the caller mount() returns to
    nfail,      \* failed filesystem calls so far, over all runs
    err,        \* the last failed call and its error number
    pushed,     \* paths pushed onto the frontier in this run
    popped,     \* paths popped from the frontier in this run
    created,    \* directories whose destination was created in this run
    listed,     \* directories whose listing was opened in this run
    copied,     \* files fs::copy copied in this run
    lost,       \* children not yet yielded when a listing was cut short
    copyCalls,  \* calls of fs::copy in this run
    attempts,   \* calls of fs::copy for the file popped last
    remounts,   \* calls of remount() in this run
    mAttempts,  \* mount attempts of the current call of mount()
    mUmounts,   \* unmounts made by the current call of mount()
    mSettles,   \* settle delays slept by those unmounts
    lastMount,  \* outcome of the last mount attempt
    umountOK,   \* exit status of the last unmount
    pure        \* argument and result of a function applied on its own

env == <<cfg, src>>
runs == <<run, firstClean>>
mnt == <<remounts, mAttempts, mUmounts, mSettles, lastMount, umountOK, ret>>
hist == <<pushed, popped, created, listed, copied, lost>>
cpy == <<cur, copyCalls, attempts>>
flt == <<nfail, err>>
vars == <<cfg, src, dest, run, firstClean, pc, stack, registry, cur, ret, nfail,
          err, pushed, popped, created, listed, copied, lost, copyCalls,
          attempts, remounts, mAttempts, mUmounts, mSettles, lastMount,
          umountOK, pure>>

NoCur == [from |-> <<>>, to |-> <<>>]
NoErr == [op |-> "none", errno |-> OK]
NoPure == [op |-> "idle", arg |-> <<>>, res |-> <<>>]

\* the state of a process that has parsed its arguments
Fresh ==
    /\ pc = "check"
    /\ stack = <<>>
    /\ registry = {}
    /\ cur = NoCur
    /\ ret = "none"
    /\ nfail = 0
    /\ err = NoErr
    /\ pushed = {} /\ popped = {} /\ created = {} /\ listed = {}
    /\ copied = {} /\ lost = {}
    /\ copyCalls = 0 /\ attempts = 0
    /\ remounts = 0 /\ mAttempts = 0 /\ mUmounts = 0 /\ mSettles = 0
    /\ lastMount = "none" /\ umountOK = TRUE

Init ==
    /\ cfg \in {[dest |-> d, source |-> SourceRoot] : d \in DestRoots}
    /\ src \in Trees
    /\ dest = EmptyFs
    /\ run = 1
    /\ firstClean = FALSE
    /\ pure = NoPure
    /\ Fresh


(* -------------------------- failure registry -------------------------- *)
\* a slip remember_failure could have: nothing is inserted
remember_nothing(path) == registry

\* a slip remember_failure could have: the registry keeps the last path only
remember_only_last(path) == {path}

\* a slip remember_failure could have: the frontier is registered as well
remember_with_frontier(path) == registry \cup {path} \cup {stack[i] : i \in DOMAIN stack}

\* remember_failure: the registry after the insertion
remember_failure(path) == registry \cup {path}

is_failure(path) == path \in registry

(* ------------------------------ helpers ------------------------------- *)
Top == stack[Len(stack)]

\* a slip the loop could have: the popped path stays on the frontier
pop_keeps_top == stack

\* the frontier after stack.pop()
Rest == SubSeq(stack, 1, Len(stack) - 1)

Children(d) == {p \in src.dirs \cup src.files : Len(p) = Len(d) + 1 /\ IsPrefix(d, p)}

Failed(e) == IF e = OK THEN 0 ELSE 1

\* the outcomes a call may have while the bound on failed calls allows one
May(errors) == IF nfail < MaxFaults THEN errors ELSE {OK}

\* the same for a call of a step in which used calls have failed already
MayAfter(used, errors) == IF nfail + used < MaxFaults THEN errors ELSE {OK}

\* a slip the for loop could have: the last entry it reads is not pushed
YieldedButLast(order, k) == SubSeq(order, 1, k - 1)

\* a slip the for loop could have: it goes on after the failed entry
YieldedAll(order, k) == order

\* the entries the for loop pushed before it broke off after k of them
Yielded(order, k) == SubSeq(order, 1, k)

\* the entries the listing had not reached when it was cut short
NotReached(order, k) == {order[i] : i \in (k + 1)..Len(order)}

\* the process panics: nothing more happens in this run
Panic == pc' = "panic"

\* a slip remount could have: the mount is attempted without the unmount
remount_without_umount(path) ==
    /\ registry' = remember_failure(path)
    /\ remounts' = remounts + 1
    /\ ret' = "loop"
    /\ pc' = "mount"

\* handle_software_caused_connection_abort up to the call of umount
HandleAbort(path) ==
    /\ registry' = remember_failure(path)
    /\ remounts' = remounts + 1
    /\ ret' = "loop"
    /\ pc' = "remount_umount"

(* ------------------------- initial_mount_check ------------------------ *)
\* a slip copy_tree could have: a sub-directory is on the frontier from
\* the start, above the source root
start_with_subdirectory ==
    /\ stack' = <<cfg.source,
                  CHOOSE d \in src.dirs : Len(d) = Len(cfg.source) + 1>>
    /\ pushed' = {stack'[i] : i \in DOMAIN stack'}

\* copy_tree's first two lines: the frontier holds the source root
StartCopyTree ==
    /\ stack' = <<cfg.source>>
    /\ pushed' = {cfg.source}

InitialMountCheck(e) ==
    /\ pc = "check"
    /\ e = OK \/ nfail < MaxFaults
    /\ nfail' = nfail + Failed(e)
    /\ err' = IF e = OK THEN err ELSE [op |-> "probe", errno |-> e]
    /\ IF e = OK
       THEN /\ pc' = "loop"
            /\ StartCopyTree
            /\ UNCHANGED <<ret, mAttempts, mUmounts, mSettles>>
       ELSE IF e = ENOTCONN
       THEN /\ pc' = "mount"
            /\ ret' = "check"
            /\ mAttempts' = 0 /\ mUmounts' = 0 /\ mSettles' = 0
            /\ UNCHANGED <<stack, pushed>>
       ELSE /\ Panic
            /\ UNCHANGED <<stack, pushed, ret, mAttempts, mUmounts, mSettles>>
    /\ UNCHANGED <<env, runs, dest, registry, cpy, popped, created, listed,
                   copied, lost, remounts, lastMount, umountOK, pure>>

(* --------------------------- mount controller ------------------------- *)
\* a slip umount could have: no settle delay after a failed unmount
umount_settles_on_success(ok) == [status |-> ok, settles |-> IF ok THEN 1 ELSE 0]

\* umount: the exit status is logged, the settle delay is slept either way
umount(ok) == [status |-> ok, settles |-> 1]

\* Command::output() is Err (sudo cannot be executed): .expect() panics
ExecPanic(op) ==
    /\ Panic
    /\ err' = [op |-> op, errno |-> ENOENT]
    /\ nfail' = nfail

\* remount's call of umount, then its call of mount; ran: the command
\* could be executed, ok: its exit status
RemountUmount(ran, ok) ==
    /\ pc = "remount_umount"
    /\ IF ran
       THEN /\ umountOK' = umount(ok).status
            /\ mAttempts' = 0 /\ mUmounts' = 0 /\ mSettles' = 0
            /\ pc' = "mount"
            /\ UNCHANGED flt
       ELSE /\ ok
            /\ ExecPanic("umount")
            /\ UNCHANGED <<umountOK, mAttempts, mUmounts, mSettles>>
    /\ UNCHANGED <<env, runs, dest, stack, registry, cpy, hist, remounts,
                   lastMount, ret, pure>>

\* mount's call of umount after a failed attempt, then its call of itself
MountUmount(ran, ok) ==
    /\ pc = "mount_umount"
    /\ IF ran
       THEN /\ umountOK' = umount(ok).status
            /\ mSettles' = mSettles + umount(ok).settles
            /\ mUmounts' = mUmounts + 1
            /\ pc' = "mount"
            /\ UNCHANGED flt
       ELSE /\ ok
            /\ ExecPanic("umount")
            /\ UNCHANGED <<umountOK, mSettles, mUmounts>>
    /\ UNCHANGED <<env, runs, dest, stack, registry, cpy, hist, remounts,
                   mAttempts, lastMount, ret, pure>>

\* a slip mount could have: a second failed attempt gives up
MountGivesUp(ok) == IF ok \/ mAttempts >= 1 THEN "return" ELSE "mount_umount"

\* where a mount attempt leads: back to the caller, or to umount and a
\* retry by a call of mount() inside mount(); the call stack holds a
\* bounded number of these frames (MaxMountFails of them here, thousands
\* in a build), and the call that needs one more overflows it
MountLeadsTo(ok) ==
    IF ok THEN "return"
    ELSE IF mAttempts < MaxMountFails THEN "mount_umount"
    ELSE "overflow"

\* one attempt of mount(); ran: the command could be executed, ok: its
\* exit status
Mount(ran, ok) ==
    /\ pc = "mount"
    /\ IF ~ran
       THEN /\ ok
            /\ ExecPanic("mount")
            /\ UNCHANGED <<mAttempts, lastMount, stack, pushed>>
       ELSE /\ mAttempts' = mAttempts + 1
            /\ lastMount' = IF ok THEN "ok" ELSE "failed"
            /\ UNCHANGED flt
            /\ IF MountLeadsTo(ok) = "return"
               THEN /\ pc' = "loop"
                    /\ IF ret = "check" THEN StartCopyTree
                                        ELSE UNCHANGED <<stack, pushed>>
               ELSE /\ pc' = MountLeadsTo(ok)
                    /\ UNCHANGED <<stack, pushed>>
    /\ UNCHANGED <<env, runs, dest, registry, cpy, popped, created, listed,
                   copied, lost, remounts, mUmounts, mSettles, umountOK, ret, pure>>


(* ------------------------------ copy_file ----------------------------- *)
\* a slip copy_file could have: an input/output error takes the arm of the
\* invalid-argument error
copy_arm_io_retries(r) ==
    IF r = OK THEN "ok"
    ELSE IF r = ECONNABORTED THEN "abort"
    ELSE IF r = EINVAL \/ r = EIO THEN "retry"
    ELSE "panic"

\* copy_file's match on the result of fs::copy: Ok and error 5 return Ok,
\* 103 goes to the remount, 22 to the recursive call, anything else panics
copy_arm(r) ==
    IF r = OK \/ r = EIO THEN "ok"
    ELSE IF r = ECONNABORTED THEN "abort"
    ELSE IF r = EINVAL THEN "retry"
    ELSE "panic"

\* fs::copy refuses a source that is not a regular file
NotRegular(from) == from \in src.dirs

\* fs::copy cannot open a target that is a directory
TargetIsDir(fs, to) == to \in DOMAIN fs /\ fs[to].kind = "dir"

\* fs::copy cannot succeed, whatever the filesystems answer
CopyRefused(from, to) ==
    NotRegular(from) \/ CopyBlocked(dest, to) \/ TargetIsDir(dest, to)

\* what fs::copy returns: the volunteered error, or the one the source
\* or the destination forces
CopyResult(from, to, e) ==
    IF e # OK THEN e ELSE IF CopyRefused(from, to) THEN EOTHER ELSE OK

\* one call of copy_file(from, to), prev calls of fs::copy made for this
\* file before it; d is the error of the caller's path.is_dir(), s the
\* error of the stat made by to.exists(), e the error fs::copy would
\* return, left: what an fs::copy that fails leaves at the target; err
\* keeps the last call that failed, a stat the program does not see included
copy_file(from, to, d, s, e, left, prev) ==
    IF Exists(dest, to, s)
    THEN /\ e = OK /\ left = "nothing"
         /\ pc' = "loop"
         /\ cur' = NoCur
         /\ attempts' = prev
         /\ nfail' = nfail + Failed(d)
         /\ err' = IF d # OK THEN [op |-> "stat", errno |-> d] ELSE err
         /\ UNCHANGED <<dest, registry, copyCalls, copied, remounts, ret>>
    ELSE LET r == CopyResult(from, to, e) IN
         /\ left # "nothing" => (e # OK /\ ~CopyRefused(from, to))
         /\ nfail + Failed(d) + Failed(s) + Failed(e) <= MaxFaults
         /\ copyCalls' = copyCalls + 1
         /\ attempts' = prev + 1
         /\ nfail' = nfail + Failed(d) + Failed(s) + Failed(r)
         /\ err' = IF r # OK THEN [op |-> "copy", errno |-> r]
                   ELSE IF s # OK THEN [op |-> "stat", errno |-> s]
                   ELSE IF d # OK THEN [op |-> "stat", errno |-> d]
                   ELSE err
         /\ dest' = IF r = OK THEN WriteFile(dest, to, Content(from))
                    ELSE IF left = "partial" THEN WriteFile(dest, to, Partial)
                    ELSE IF left = "whole" THEN WriteFile(dest, to, Content(from))
                    ELSE dest
         /\ copied' = IF r = OK THEN copied \cup {from} ELSE copied
         /\ IF copy_arm(r) = "ok"
            THEN /\ pc' = "loop"
                 /\ cur' = NoCur
                 /\ UNCHANGED <<registry, remounts, ret>>
            ELSE IF copy_arm(r) = "abort"
            THEN /\ HandleAbort(from)
                 /\ cur' = NoCur
            ELSE IF copy_arm(r) = "retry"
            THEN /\ pc' = "copy"
                 /\ cur' = [from |-> from, to |-> replace_forbidden_characters(to)]
                 /\ UNCHANGED <<registry, remounts, ret>>
            ELSE /\ Panic
                 /\ cur' = NoCur
                 /\ UNCHANGED <<registry, remounts, ret>>

CopyErrors == {OK, EIO, EINVAL, ECONNABORTED, EOTHER}

\* the errors of a stat (path.is_dir(), to.exists())
StatErrors == {OK, ECONNABORTED, EOTHER}

\* the recursive call of copy_file after an invalid-argument error
CopyRetry(s, e, left) ==
    /\ pc = "copy"
    /\ s \in May(StatErrors)
    /\ e \in May(CopyErrors)
    /\ copy_file(cur.from, cur.to, OK, s, e, left, attempts)
    /\ UNCHANGED <<env, runs, stack, pushed, popped, created, listed, lost,
                   mAttempts, mUmounts, mSettles, lastMount, umountOK, pure>>

(* ------------------------------ copy_tree ----------------------------- *)
\* a slip copy_tree could have: every error of create_dir_all is retried
create_arm_retries_any(e) == IF e = OK THEN "ok" ELSE "retry"

\* copy_tree's match on the result of create_dir_all: Ok goes on, 22 goes
\* to the one retry on the repaired path, anything else panics
create_arm(e) ==
    IF e = OK THEN "ok"
    ELSE IF e = EINVAL THEN "retry"
    ELSE "panic"

CreateErrors == {OK, EINVAL, EOTHER}
OpenErrors == {OK, ECONNABORTED, EOTHER}
EntryErrors == {OK, ECONNABORTED, EOTHER}

\* the directory branch of the loop body for the popped path and its
\* dest_path: e1 and e2 are the errors of create_dir_all and of its retry, e3 the error of opening
\* the listing, order the order of the listing, e4 the error that ends the
\* listing after k entries; a call that is not reached has no outcome; a
\* create_dir_all that fails has made the first j missing components of dp
VisitDir(path, dp, e1, e2, e3, order, k, e4, j) ==
    LET rp == replace_forbidden_characters(dp)
        c1 == IF CreateBlocked(dest, dp) THEN EEXIST ELSE e1
        c2 == IF create_arm(c1) # "retry" THEN OK
              ELSE IF CreateBlocked(dest, rp) THEN EEXIST ELSE e2
        made == create_arm(c1) = "ok" \/ (create_arm(c1) = "retry" /\ c2 = OK)
        c3 == IF made THEN e3 ELSE OK
        opened == made /\ c3 = OK
        c4 == IF opened THEN e4 ELSE OK
        got == IF opened THEN Yielded(order, k) ELSE <<>>
        aborted == opened /\ c4 = ECONNABORTED
        fatal == ~made \/ c3 # OK \/ c4 \notin {OK, ECONNABORTED}
        last == IF create_arm(c1) = "panic" THEN [op |-> "create_dir", errno |-> c1]
                ELSE IF c2 # OK THEN [op |-> "create_dir_retry", errno |-> c2]
                ELSE IF c3 # OK THEN [op |-> "read_dir", errno |-> c3]
                ELSE IF c4 # OK THEN [op |-> "entry", errno |-> c4]
                ELSE IF c1 # OK THEN [op |-> "create_dir", errno |-> c1]
                ELSE err
        volunteered == Failed(IF c1 = e1 THEN e1 ELSE OK)
                       + Failed(IF c2 = e2 THEN e2 ELSE OK) + Failed(c3) + Failed(c4)
    IN  /\ nfail + volunteered <= MaxFaults
        /\ (made \/ CreateBlocked(dest, dp)) => j = 0
        /\ nfail' = nfail + Failed(c1) + Failed(c2) + Failed(c3) + Failed(c4)
        /\ err' = last
        /\ dest' = IF made THEN MkDirAll(dest, IF c1 = OK THEN dp ELSE rp)
                   ELSE MkDirAll(dest, SubSeq(dp, 1, j))
        /\ created' = IF made THEN created \cup {path} ELSE created
        /\ listed' = IF opened THEN listed \cup {path} ELSE listed
        /\ stack' = Rest \o got
        /\ pushed' = pushed \cup Range(got)
        /\ lost' = IF aborted THEN lost \cup NotReached(order, k) ELSE lost
        /\ IF fatal
           THEN Panic /\ UNCHANGED <<registry, remounts, ret>>
           ELSE IF aborted
           THEN HandleAbort(path)
           ELSE pc' = "loop" /\ UNCHANGED <<registry, remounts, ret>>
        /\ UNCHANGED <<cpy, copied>>

\* path.is_dir(): false also when the stat fails (d is its error)
is_dir(path, d) == d = OK /\ path \in src.dirs

\* one pass of the while loop: pop a path, skip it when it is a known
\* failure, else visit it when is_dir() says directory, else copy it
TraverseStep ==
    /\ pc = "loop"
    /\ stack # <<>>
    /\ LET path == Top
           dest_path_ == dest_path(cfg.dest, cfg.source, path)
           orders == Perms(Children(path))
       IN
       /\ popped' = popped \cup {path}
       /\ IF is_failure(path)
          THEN /\ stack' = Rest
               /\ pc' = "loop"
               /\ UNCHANGED <<dest, registry, cpy, flt, pushed, created, listed,
                              copied, lost, remounts, ret>>
          ELSE \E d \in May(StatErrors) :
               IF is_dir(path, d)
               THEN \E e1 \in May(CreateErrors) :
                    \E e2 \in IF e1 = EINVAL
                               THEN MayAfter(1, CreateErrors) ELSE {OK} :
                    \E e3 \in IF e1 = OK \/ (e1 = EINVAL /\ e2 = OK)
                               THEN MayAfter(Failed(e1), OpenErrors) ELSE {OK} :
                    \E e4 \in IF e3 = OK /\ (e1 = OK \/ (e1 = EINVAL /\ e2 = OK))
                               THEN MayAfter(Failed(e1), EntryErrors) ELSE {OK} :
                    \E order \in orders :
                    \E k \in IF e4 = OK THEN {Len(order)} ELSE 0..Len(order) :
                    \E j \in IF e1 # OK /\ (e1 # EINVAL \/ e2 # OK)
                              THEN 0..(Len(dest_path_) - 1) ELSE {0} :
                         VisitDir(path, dest_path_, e1, e2, e3, order, k, e4, j)
               ELSE /\ stack' = Rest
                    /\ \E s \in MayAfter(Failed(d), StatErrors) :
                       \E e \in MayAfter(Failed(d) + Failed(s), CopyErrors) :
                       \E left \in IF e = OK THEN {"nothing"} ELSE CopyLeaves :
                            copy_file(path, dest_path_, d, s, e, left, 0)
                    /\ UNCHANGED <<pushed, created, listed, lost>>
    /\ UNCHANGED <<env, runs, mAttempts, mUmounts, mSettles, lastMount,
                   umountOK, pure>>

\* the frontier is empty: copy_tree returns and main prints "done!"
Done ==
    /\ pc = "loop"
    /\ stack = <<>>
    /\ pc' = "done"
    /\ UNCHANGED <<env, runs, dest, stack, registry, cpy, flt, hist, mnt, pure>>

Next ==
    \/ \E e \in {OK, ENOTCONN, EOTHER} : InitialMountCheck(e)
    \/ \E ran, ok \in BOOLEAN : RemountUmount(ran, ok)
    \/ \E ran, ok \in BOOLEAN : MountUmount(ran, ok)
    \/ \E ran, ok \in BOOLEAN : Mount(ran, ok)
    \/ TraverseStep
    \/ \E s \in StatErrors, e \in CopyErrors, left \in CopyLeaves :
          CopyRetry(s, e, left)
    \/ Done

Spec == Init /\ [][Next]_vars


\* what every pass of the while loop does first: it pops the top of the
\* frontier
LoopPops ==
    /\ pc = "loop"
    /\ stack # <<>>
    /\ popped' = popped \cup {Top}

\* the process is one thread that runs until it returns or panics: the
\* step it is at is taken. For the loop body the fairness is stated on the
\* pop, which every pass of TraverseStep makes and no other action does.
SpecLive ==
    /\ Init /\ [][Next]_vars
    /\ WF_vars(\E e \in {OK, ENOTCONN, EOTHER} : InitialMountCheck(e))
    /\ WF_vars(\E ran, ok \in BOOLEAN : RemountUmount(ran, ok))
    /\ WF_vars(\E ran, ok \in BOOLEAN : MountUmount(ran, ok))
    /\ WF_vars(\E ran, ok \in BOOLEAN : Mount(ran, ok))
    /\ WF_popped(LoopPops)
    /\ WF_vars(\E s \in StatErrors, e \in CopyErrors, left \in CopyLeaves :
                  CopyRetry(s, e, left))
    /\ WF_vars(Done)


(* ------------------------ a second process run ------------------------ *)
\* the process is started again on the same source and destination, after
\* "done!", after a panic or after a stack overflow; the registry lives and
\* dies with the process
Restart ==
    /\ pc \in {"done", "panic", "overflow"}
    /\ run < MaxRuns
    /\ run' = run + 1
    /\ firstClean' = (pc = "done" /\ nfail = 0)
    /\ pc' = "check"
    /\ stack' = <<>>
    /\ registry' = {}
    /\ cur' = NoCur
    /\ ret' = "none"
    /\ nfail' = nfail
    /\ err' = NoErr
    /\ pushed' = {} /\ popped' = {} /\ created' = {} /\ listed' = {}
    /\ copied' = {} /\ lost' = {}
    /\ copyCalls' = 0 /\ attempts' = 0
    /\ remounts' = 0 /\ mAttempts' = 0 /\ mUmounts' = 0 /\ mSettles' = 0
    /\ lastMount' = "none" /\ umountOK' = TRUE
    /\ UNCHANGED <<env, dest, pure>>

NextRerun == Next \/ Restart

\* the runs start from the relative destination root
InitRerun == Init /\ cfg.dest[1] # RootDir

SpecRerun == InitRerun /\ [][NextRerun]_vars


(* ------------------ the functions applied on their own ---------------- *)
\* the characters of the strings handed to the sanitizer: the nine
\* forbidden ones, the underscore, a letter and a space
Alphabet == ForbiddenSet \cup {"_", "a", " "}

Strings == UNION {[1..n -> Alphabet] : n \in 0..MaxLen}

\* path components as Path::iter gives them: no separator inside
Names == {<<"a">>, <<"a", "*">>, <<"a", "_">>, <<"b", ":", "t">>, <<"?">>}

RelPaths == UNION {[1..n -> Names] : n \in 0..2}

PureDestRoots == DestRoots \cup {<< <<".", ".">>, <<"o">> >>, << <<"o">>, <<".", ".">> >>}

MapArgs ==
    {[dest |-> d, source |-> SourceRoot, path |-> SourceRoot \o r] :
        d \in PureDestRoots, r \in RelPaths}

InitPure ==
    /\ cfg = [dest |-> << <<"o">> >>, source |-> SourceRoot]
    /\ src = [dirs |-> {SourceRoot}, files |-> {}]
    /\ dest = EmptyFs
    /\ run = 1
    /\ firstClean = FALSE
    /\ Fresh
    /\ pure \in {[op |-> "string", arg |-> a, res |-> <<>>] : a \in Strings}
          \cup {[op |-> "paths", arg |-> a, res |-> <<>>] : a \in MapArgs}

PureFrame ==
    UNCHANGED <<cfg, src, dest, run, firstClean, pc, stack, registry, cur, ret,
                nfail, err, pushed, popped, created, listed, copied, lost,
                copyCalls, attempts, remounts, mAttempts, mUmounts, mSettles,
                lastMount, umountOK>>

\* underscore_non_windows_chars applied to a string
Sanitize ==
    /\ pure.op = "string"
    /\ pure' = [op |-> "sanitized", arg |-> pure.arg,
                res |-> underscore_non_windows_chars(pure.arg)]
    /\ PureFrame

\* underscore_non_windows_chars applied to its own result
SanitizeAgain ==
    /\ pure.op = "sanitized"
    /\ pure' = [op |-> "resanitized", arg |-> pure.res,
                res |-> underscore_non_windows_chars(pure.res)]
    /\ PureFrame

\* copy_tree's dest_path computed for a source path
MapPath ==
    /\ pure.op = "paths"
    /\ pure' = [op |-> "mapped", arg |-> pure.arg,
                res |-> dest_path(pure.arg.dest, pure.arg.source, pure.arg.path)]
    /\ PureFrame

\* replace_forbidden_characters applied to a mapped destination path
Repair ==
    /\ pure.op = "mapped"
    /\ HasFileName(pure.res)
    /\ pure' = [op |-> "repaired", arg |-> pure.res,
                res |-> replace_forbidden_characters(pure.res)]
    /\ PureFrame

\* replace_forbidden_characters applied to a path as Path::join gives it,
\* no component sanitized
RepairJoined ==
    /\ pure.op = "paths"
    /\ LET joined == join(pure.arg.dest, strip_prefix(pure.arg.path, pure.arg.source))
       IN  /\ HasFileName(joined)
           /\ pure' = [op |-> "rawrepaired", arg |-> joined,
                       res |-> replace_forbidden_characters(joined)]
    /\ PureFrame

NextPure == Sanitize \/ SanitizeAgain \/ MapPath \/ Repair \/ RepairJoined

SpecPure == InitPure /\ [][NextPure]_vars

(* ------------------------------- claims ------------------------------- *)
DP(p) == dest_path(cfg.dest, cfg.source, p)

Nodes == src.dirs \cup src.files

\* no two paths of the source tree have the same destination path
MappingInjective == \A p, q \in Nodes : DP(p) = DP(q) => p = q

\* every file is at its destination with the bytes of the source file, and
\* every directory is a directory at its destination
AllCopied ==
    /\ \A f \in src.files :
          DP(f) \in DOMAIN dest /\ dest[DP(f)] = FileEntry(Content(f))
    /\ \A d \in src.dirs :
          DP(d) \in DOMAIN dest /\ dest[DP(d)].kind = "dir"

StrictlyUnder(d, p) == IsPrefix(d, p) /\ p # d

\* C1 as stated: for any source tree and an empty destination, a run in
\* which no filesystem call failed ends with every file at its destination
\* path with identical content and every directory created.
C1_AnyTree == (pc = "done" /\ nfail = 0) => AllCopied

\* C1, amended: for a source tree no two paths of which map to the same
\* destination path and an empty destination, a run in which no filesystem
\* call fails never panics, and when it has printed the success marker every
\* file is at the destination path copy_tree computes for it with the
\* content of the source file and every directory is at its destination.
C1_Completeness ==
    /\ (nfail = 0 /\ MappingInjective) => pc # "panic"
    /\ (pc = "done" /\ nfail = 0 /\ MappingInjective) => AllCopied

C1_Witness ==
    /\ pc = "done" /\ nfail = 0 /\ MappingInjective
    /\ Cardinality(src.files) = 3 /\ Cardinality(src.dirs) = 3
    /\ AllCopied

\* C2 as stated: the destination path of a source path is the destination
\* root unchanged, followed by the sanitized components of the path
\* relative to the source root.
C2_PathMapping ==
    pure.op = "mapped" =>
        LET rel == strip_prefix(pure.arg.path, pure.arg.source)
        IN  pure.res = pure.arg.dest
                \o [i \in 1..Len(rel) |-> underscore_non_windows_chars(rel[i])]

\* C3: the sanitized string has the length of the input, holds none of the
\* nine forbidden characters, has '_' at each position where the input had
\* a forbidden character and the input's character at every other position.
C3_Sanitizer ==
    pure.op = "sanitized" =>
        /\ Len(pure.res) = Len(pure.arg)
        /\ \A i \in 1..Len(pure.res) : pure.res[i] \notin ForbiddenSet
        /\ \A i \in 1..Len(pure.arg) :
              pure.res[i] = IF pure.arg[i] \in ForbiddenSet THEN "_" ELSE pure.arg[i]

C3_Witness ==
    /\ pure.op = "sanitized"
    /\ \E i, j \in 1..Len(pure.arg) :
          pure.arg[i] = "*" /\ pure.res[i] = "_" /\ pure.arg[j] = "a" /\ pure.res[j] = "a"

\* C4: sanitizing a sanitized string returns it unchanged.
C4_Idempotent == pure.op = "resanitized" => pure.res = pure.arg

C4_Witness ==
    /\ pure.op = "resanitized"
    /\ Len(pure.arg) = MaxLen
    /\ \E i \in 1..Len(pure.arg) : pure.arg[i] = "_"
    /\ pure.res = pure.arg

\* C5 as stated: a second run on the same destination calls fs::copy for
\* no file.
C5_AnySecondRun == run >= 2 => copyCalls = 0

\* C5, amended: when the run before ended with the success marker and no
\* filesystem call has failed in either run, every file's destination
\* exists and the next run calls fs::copy for no file.
C5_Rerun ==
    (run >= 2 /\ firstClean /\ nfail = 0) =>
        /\ copyCalls = 0
        /\ copied = {}
        /\ \A f \in src.files : DP(f) \in DOMAIN dest

C5_Witness ==
    /\ run = 2 /\ firstClean /\ pc = "done" /\ nfail = 0
    /\ Cardinality(src.files) = 3
    /\ src.files \subseteq popped
    /\ copyCalls = 0

\* C6 as stated: once a directory is in the failure registry, no file or
\* directory under it is copied or created for the rest of the run.
C6_NothingUnder ==
    [][\A d \in registry \cap src.dirs :
         \A p \in (copied' \ copied) \cup (created' \ created) :
            ~StrictlyUnder(d, p)]_vars

\* C6, amended: once a directory is in the failure registry it is not on
\* the frontier again, and no child of it that its listing had not yielded
\* before the abort is pushed, popped, copied or created for the rest of the
\* run; the children yielded before the abort are still processed.
C6_Permanence ==
    /\ lost \cap (pushed \cup popped \cup copied \cup created) = {}
    /\ \A q \in lost : SubSeq(q, 1, Len(q) - 1) \in registry
    /\ \A d \in registry : d \in popped /\ d \notin Range(stack)

C6_Witness ==
    /\ pc = "done"
    /\ \E d \in registry \cap src.dirs :
          /\ lost \cap Children(d) # {}
          /\ copied \cap Children(d) # {}

\* the step of a listing that fails with a connection abort
C7_AbortStep ==
    (pc = "loop" /\ pc' = "remount_umount" /\ err'.op = "entry") =>
        /\ Top \in src.dirs
        /\ registry' = registry \cup {Top}
        /\ remounts' = remounts + 1
        /\ Len(stack') >= Len(Rest)
        /\ SubSeq(stack', 1, Len(Rest)) = Rest
        /\ LET new == {stack'[i] : i \in Len(stack)..Len(stack')}
           IN  /\ new \subseteq Children(Top)
               /\ Cardinality(new) = Len(stack') - Len(Rest)
               /\ lost' = lost \cup (Children(Top) \ new)

\* the steps of the remount: unmount, then mount until it succeeds, the
\* frontier and the registry left alone; a command that cannot be executed
\* is left aside, ends names the ways out of mount
C7_Recovery(ends) ==
    /\ (pc = "remount_umount" /\ err'.op # "umount") =>
          pc' = "mount" /\ stack' = stack /\ remounts' = remounts
    /\ (pc \in {"mount", "mount_umount"} /\ ret = "loop"
           /\ err'.op \notin {"umount", "mount"}) =>
          /\ pc' \in {"mount", "mount_umount"} \cup ends
          /\ stack' = stack /\ remounts' = remounts /\ registry' = registry

\* C7 as stated: a listing that fails with a connection abort after some
\* entries leaves those entries on the frontier, pushes no further entry of
\* the directory, inserts the directory into the registry, starts exactly
\* one remount (unmount, then mount) and the process is never aborted; the
\* run goes on with the frontier, and when it is done every path pushed has
\* been popped.
C7_MidListingAbort ==
    /\ [][C7_AbortStep /\ C7_Recovery({"loop"})]_vars
    /\ [](pc = "done" => (popped = pushed /\ stack = <<>>))

\* the part of C7 the program keeps: the same, but for the mount that fails
\* until the call stack overflows
C7_UpToOverflow ==
    /\ [][C7_AbortStep /\ C7_Recovery({"loop", "overflow"})]_vars
    /\ [](pc = "done" => (popped = pushed /\ stack = <<>>))

C7_Witness ==
    /\ pc = "done" /\ remounts = 1 /\ err.op = "entry"
    /\ \E d \in registry \cap src.dirs :
          /\ Cardinality(Children(d)) = 2
          /\ Cardinality(lost \cap Children(d)) = 1
          /\ Cardinality(copied \cap Children(d)) = 1

\* what mount keeps at every attempt: the unmounts and settle delays made
\* equal the failed attempts
C8_Cycles ==
    /\ [](pc = "mount" => (mUmounts = mAttempts /\ mSettles = mUmounts))
    /\ [](pc = "mount_umount" => (lastMount = "failed" /\ mUmounts = mAttempts - 1))
    /\ [][(pc = "mount_umount" /\ err'.op # "umount") => pc' = "mount"]_vars

\* C8 as stated: mount returns only after a successful attempt; every
\* failed attempt is followed by exactly one unmount and its settle delay
\* before the next attempt, so n failures make n unmounts, n settle delays
\* and n + 1 attempts; no number of failures makes mount give up or abort
\* the run (a command that cannot be executed is left aside).
C8_MountRetry ==
    /\ C8_Cycles
    /\ [][(pc = "mount" /\ pc' # "mount_umount" /\ err'.op # "mount") =>
             /\ pc' = "loop"
             /\ lastMount' = "ok"
             /\ mAttempts' = mUmounts' + 1
             /\ mSettles' = mUmounts']_vars

\* the part of C8 the program keeps: mount returns only after a successful
\* attempt, and the one other way out of its retries is the overflow of the
\* call stack
C8_UpToOverflow ==
    /\ C8_Cycles
    /\ [][(pc = "mount" /\ pc' = "loop") =>
             /\ lastMount' = "ok"
             /\ mAttempts' = mUmounts' + 1
             /\ mSettles' = mUmounts']_vars
    /\ [][(pc = "mount" /\ pc' \notin {"mount_umount", "loop"}
                  /\ err'.op # "mount") =>
             /\ pc' = "overflow"
             /\ lastMount' = "failed"
             /\ mAttempts' = MaxMountFails + 1]_vars

C8_Witness ==
    /\ pc = "loop" /\ lastMount = "ok"
    /\ mAttempts = MaxMountFails + 1 /\ mUmounts = MaxMountFails
    /\ mSettles = MaxMountFails

\* C9 as stated: a connection abort raised by opening a listing, by reading
\* an entry of it or by copying a file never makes the process panic.
C9_AbortNeverFatal ==
    ~(/\ pc = "panic"
      /\ err.errno = ECONNABORTED
      /\ err.op \in {"read_dir", "entry", "copy"})

\* C10 as stated: copy_file calls fs::copy at most twice for one file.
C10_AtMostTwoAttempts == attempts <= 2

\* the step in which a call of fs::copy fails with the input/output error
C11_IoStep ==
    /\ copyCalls' = copyCalls + 1
    /\ nfail' > nfail
    /\ err' = [op |-> "copy", errno |-> EIO]

\* C11: when fs::copy fails with the input/output error, copy_file returns
\* Ok: the process does not panic, no further call of copy_file is pending
\* for the file, no remount is started, the registry is unchanged, the
\* file does not count as copied, and the loop goes on with the rest of
\* the frontier.
C11_IoErrorSkips ==
    [][C11_IoStep =>
          /\ pc' = "loop"
          /\ cur' = NoCur
          /\ remounts' = remounts
          /\ registry' = registry
          /\ copied' = copied
          /\ stack' = IF pc = "loop" THEN Rest ELSE stack]_vars

C11_Witness ==
    /\ pc = "done" /\ nfail = 1 /\ err = [op |-> "copy", errno |-> EIO]
    /\ MappingInjective
    /\ Cardinality(src.files) = 3 /\ Cardinality(copied) = 2
    /\ copyCalls = 3
    /\ registry = {} /\ remounts = 0

\* the process has panicked on an error outside the three recoverable
\* classes
FatalError == pc = "panic" /\ err.errno \notin {ECONNABORTED, EIO, EINVAL}

\* C12 as stated: when every mount eventually succeeds (no overflow of the
\* call stack) and no error outside the recoverable classes occurs, the
\* traversal reaches the success marker whatever connection aborts,
\* input/output errors and invalid-argument errors occur.
C12_Termination == <>(pc = "done" \/ FatalError \/ pc = "overflow")

\* the part of C12 the program keeps: every run comes to an end, and the
\* success marker is printed from the loop with an empty frontier only
C12_EndsAndEmptyFrontier ==
    /\ <>(pc \in {"done", "panic", "overflow"})
    /\ [][(pc' = "done" /\ pc # "done") => (pc = "loop" /\ stack = <<>>)]_vars
    /\ [](pc = "done" => stack = <<>>)

\* the path the remount is started for: the directory popped, or the file
\* of the pending copy_file call
C13_Path == IF pc = "loop" THEN Top ELSE cur.from

InRecovery == pc \in {"remount_umount", "mount", "mount_umount"} /\ ret = "loop"

\* C13: the remount for a path starts with the insertion of the path into
\* the registry, the unmount comes next and leaves the registry alone, a
\* mount attempt is made only after an unmount, and the loop is reached
\* again only by a mount attempt that succeeded.
C13_RecoveryOrdering ==
    /\ [][(pc' = "remount_umount" /\ pc # "remount_umount") =>
             /\ pc \in {"loop", "copy"}
             /\ registry' = registry \cup {C13_Path}
             /\ mAttempts' = mAttempts]_vars
    /\ [][pc = "remount_umount" =>
             /\ registry' = registry
             /\ \/ pc' = "mount" /\ mAttempts' = 0
                \/ pc' = "panic" /\ err'.op = "umount"]_vars
    /\ [][(pc' = "mount" /\ pc # "mount" /\ ret' = "loop") =>
             pc \in {"remount_umount", "mount_umount"}]_vars
    /\ [][(ret = "loop" /\ mAttempts' = mAttempts + 1) => pc = "mount"]_vars
    /\ [][(InRecovery /\ pc' = "loop") =>
             (pc = "mount" /\ lastMount' = "ok")]_vars
    /\ [](InRecovery => registry # {})

C13_Witness ==
    /\ pc = "loop" /\ ret = "loop" /\ remounts = 1
    /\ Cardinality(registry) = 1
    /\ lastMount = "ok" /\ mAttempts = 2 /\ mUmounts = 1

\* the file a call of fs::copy made in this step is for, and its target
CopyFrom == IF pc = "loop" THEN Top ELSE cur.from
CopyTo == IF pc = "loop" THEN DP(Top) ELSE cur.to

\* the entries this pass of the loop pushed onto the frontier
NewOnStack == {stack'[i] : i \in Len(stack)..Len(stack')}

\* C14: a path in the registry is not on the frontier, so it is not pushed
\* again; the loop body never works on a registered path, so a registered
\* directory is not listed again; no call of fs::copy is made for a
\* registered file and none is pending, and a registered file is never
\* copied.
C14_NoRetryOfTrigger ==
    /\ [](registry \cap Range(stack) = {})
    /\ [](registry \cap copied = {})
    /\ [](pc = "copy" => cur.from \notin registry)
    /\ [][(pc = "loop" /\ stack # <<>>) =>
             /\ Top \notin registry
             /\ NewOnStack \cap registry' = {}]_vars
    /\ [][copyCalls' = copyCalls + 1 => CopyFrom \notin registry]_vars

C14_Witness ==
    /\ pc = "done" /\ remounts = 2
    /\ registry \cap src.dirs # {} /\ registry \cap src.files # {}
    /\ registry \subseteq popped
    /\ copied # {}

\* a pass of the loop body on a directory
DirStep == pc = "loop" /\ stack # <<>> /\ Top \in src.dirs

\* the pass neither created nor listed the directory and the process
\* panicked
C15_Aborted ==
    /\ pc' = "panic"
    /\ DP(Top) \in DOMAIN dest' => DP(Top) \in DOMAIN dest
    /\ created' = created /\ listed' = listed
    /\ stack' = Rest /\ pushed' = pushed

\* C15: a first creation failure with error 22 is followed by one retry on
\* the repaired path, and the directory is created there when the retry
\* succeeds; a failed retry panics; a first failure with another error
\* panics with no retry made; a listing is opened and children are pushed
\* only in a pass that created the directory.
C15_DirectoryCreation ==
    /\ [][(DirStep /\ err'.op = "create_dir_retry" /\ nfail' > nfail) =>
             (C15_Aborted /\ nfail' = nfail + 2)]_vars
    /\ [][(DirStep /\ err'.op = "create_dir" /\ err'.errno # EINVAL
                   /\ nfail' > nfail) =>
             (C15_Aborted /\ nfail' = nfail + 1)]_vars
    /\ [][(DirStep /\ err' = [op |-> "create_dir", errno |-> EINVAL]
                   /\ nfail' = nfail + 1) =>
             /\ pc' = "loop"
             /\ created' = created \cup {Top}
             /\ dest' = MkDirAll(dest, set_file_name(DP(Top),
                            underscore_non_windows_chars(DP(Top)[Len(DP(Top))])))]_vars
    /\ [][(DirStep /\ (stack' # Rest \/ listed' # listed)) =>
             /\ Top \in created' /\ Top \in listed'
             /\ DP(Top) \in DOMAIN dest' /\ dest'[DP(Top)].kind = "dir"]_vars
    /\ [](listed \subseteq created)

C15_Witness ==
    /\ pc = "done" /\ nfail = 1
    /\ err = [op |-> "create_dir", errno |-> EINVAL]
    /\ created = src.dirs /\ listed = src.dirs
    /\ src.files \subseteq popped

Parent(p) == SubSeq(p, 1, Len(p) - 1)

\* C16: every path that was pushed, the source root apart, has a parent
\* whose destination directory was created and exists and whose listing was
\* opened; what is popped was pushed; and a path is pushed only by the pass
\* of the loop on its parent, which has created the parent's destination.
C16_ParentBeforeChild ==
    /\ [](\A p \in pushed \ {cfg.source} :
            /\ Parent(p) \in created \cap listed \cap popped
            /\ DP(Parent(p)) \in DOMAIN dest
            /\ dest[DP(Parent(p))].kind = "dir")
    /\ [](popped \subseteq pushed)
    /\ [][\A p \in (pushed' \ pushed) \ {cfg.source} :
             /\ pc = "loop" /\ stack # <<>>
             /\ Parent(p) = Top
             /\ Top \in created' \cap listed']_vars

C16_Witness ==
    /\ pc = "done"
    /\ Cardinality(src.dirs) = 3 /\ Cardinality(src.files) = 3
    /\ popped = Nodes /\ created = src.dirs

\* C17 as stated: a call of fs::copy is made only for a target that does
\* not exist, on the first attempt and on a retry, and no step changes or
\* removes an
\* entry the destination holds; of two files with one destination path the
\* second is not copied over the first.
C17_NoOverwrite ==
    /\ [][copyCalls' = copyCalls + 1 => CopyTo \notin DOMAIN dest]_vars
    /\ [][\A q \in DOMAIN dest : q \in DOMAIN dest' /\ dest'[q] = dest[q]]_vars

\* the part of C17 the program keeps: a step in which no call fails makes
\* no call of fs::copy for a target that exists and changes no entry of
\* the destination
C17_WhenNoCallFails ==
    [][nfail' = nfail =>
          /\ copyCalls' = copyCalls + 1 => CopyTo \notin DOMAIN dest
          /\ \A q \in DOMAIN dest : q \in DOMAIN dest' /\ dest'[q] = dest[q]]_vars

\* C18: no step of a run removes a path from the registry; a step that
\* adds one adds exactly the path a call failed on with error 103 in that
\* step, and starts the remount for it.
C18_AppendOnly ==
    [][/\ registry \subseteq registry'
       /\ registry' # registry =>
             /\ registry' = registry \cup {CopyFrom}
             /\ err'.errno = ECONNABORTED /\ err'.op \in {"entry", "copy"}
             /\ nfail' > nfail
             /\ remounts' = remounts + 1
             /\ pc' = "remount_umount"]_vars

C18_Witness ==
    /\ pc = "done" /\ Cardinality(registry) = 2 /\ remounts = 2
    /\ lastMount = "ok"

\* C19: the frontier holds no path twice and none that was popped; a pass
\* of the loop pushes only paths never pushed before; a path is in the
\* registry only after it was popped; so the path the loop pops is never in
\* the registry.
C19_CheckNeverFires ==
    /\ [](Cardinality(Range(stack)) = Len(stack))
    /\ [](Range(stack) \cap popped = {})
    /\ [](pushed = popped \cup Range(stack))
    /\ [](registry \subseteq popped)
    /\ [][(pc = "loop" /\ stack # <<>>) =>
             /\ NewOnStack \cap pushed = {}
             /\ Cardinality(NewOnStack) = Len(stack') - Len(Rest)
             /\ Top \notin registry]_vars

C19_Witness ==
    /\ pc = "done"
    /\ Cardinality(registry) = 1 /\ registry \subseteq src.dirs
    /\ popped = pushed /\ Cardinality(popped) >= 4

\* a component with '_' in the place of every forbidden character
Underscored(c) == [j \in 1..Len(c) |-> IF c[j] \in ForbiddenSet THEN "_" ELSE c[j]]

\* C20: replace_forbidden_characters returns a path of the same length
\* whose components but the last are those of its argument and whose last
\* component is the sanitized last component of the argument; applied to a
\* path dest_path computed it returns that path, so the retry of
\* create_dir_all or of copy_file has the target of the failed call.
C20_RepairIsIdentityOnMapped ==
    /\ pure.op = "rawrepaired" =>
          /\ Len(pure.res) = Len(pure.arg)
          /\ \A i \in 1..(Len(pure.arg) - 1) : pure.res[i] = pure.arg[i]
          /\ pure.res[Len(pure.arg)] = Underscored(pure.arg[Len(pure.arg)])
    /\ pure.op = "repaired" => pure.res = pure.arg

C20_Witness ==
    /\ pure.op = "rawrepaired"
    /\ Len(pure.arg) >= 3
    /\ \E i \in 1..(Len(pure.arg) - 1) : \E j \in 1..Len(pure.arg[i]) :
          pure.arg[i][j] \in ForbiddenSet /\ pure.res[i] = pure.arg[i]
    /\ pure.res[Len(pure.arg)] # pure.arg[Len(pure.arg)]
    /\ dest_path(<<>>, <<>>, pure.res) = dest_path(<<>>, <<>>, pure.arg)
    /\ replace_forbidden_characters(dest_path(<<>>, <<>>, pure.arg))
          = dest_path(<<>>, <<>>, pure.arg)

====
